---- MODULE Spec2Model ----
(***************************************************************************)
(* Model of the MCP-MasterClass scripts:                                   *)
(*   3-LLM-Integration/client.py        MCPGroqClient and main()           *)
(*   4-MCP-vs-Function_Calling/function_calling.py   the direct script     *)
(*   1-MCP-Demo/mcp_server.py           the HTTP multiply endpoint         *)
(* The Model (Groq), the Tool Provider behind the session and the HTTP     *)
(* client are the environment: their answers are nondeterministic.         *)
(***************************************************************************)
EXTENDS Integers, Sequences, FiniteSets, TLC

\* ---------------------------------------------------------------- bounds
\* Largest number of tool calls one Model response carries.
MaxCalls == 2

\* ------------------------------------------------------------ value sets
None == "None"

\* Queries that may run on one MCPGroqClient; main() runs query 1 only.
Queries == {1, 2}

QueryText(q) == IF q = 1 THEN "What is our company's vacation policy?"
                ELSE "another query"

\* tool_call.function.arguments is a JSON-encoded string chosen by the Model.
ArgStrings == {"{\"a\": 25, \"b\": 17}", "{\"a\": 25}", "{\"a\": 25, "}

CallIds == {"call_1", "call_2"}
ToolNames == {"add", "multiply"}

\* One requested tool call of an assistant message.
ToolCalls == [id : CallIds, name : ToolNames, arguments : ArgStrings]

RECURSIVE SeqsUpTo(_, _)
SeqsUpTo(S, n) ==
    IF n = 0 THEN {<<>>}
    ELSE LET shorter == SeqsUpTo(S, n - 1)
         IN  shorter \cup {Append(s, x) : s \in {t \in shorter : Len(t) = n - 1}, x \in S}

\* The assistant messages the Model may answer the first call with: plain
\* text, or a list of requested tool calls.
FirstResponses ==
    {[role |-> "assistant", content |-> "It is 25 days.", tool_calls |-> <<>>]}
    \cup {[role |-> "assistant", content |-> None, tool_calls |-> s] :
            s \in SeqsUpTo(ToolCalls, MaxCalls) \ {<<>>}}

\* The assistant messages the Model may answer the follow-up call with; the
\* Model is not trusted to honour tool_choice.
FinalResponses ==
    {[role |-> "assistant", content |-> "The answer is 42.", tool_calls |-> <<>>],
     [role |-> "assistant", content |-> None,
      tool_calls |-> <<[id |-> "call_2", name |-> "add",
                        arguments |-> "{\"a\": 25, \"b\": 17}"]>>]}

\* The content lists a call_tool result may carry.
ResultContents == {<<>>, <<"42">>, <<"17">>, <<"42", "extra">>}

\* The tool lists the provider may advertise.
AddTool == [name |-> "add", description |-> "Add two numbers together",
            inputSchema |-> "schema_add"]
PolicyTool == [name |-> "get_policy", description |-> "Look up a policy",
               inputSchema |-> "schema_policy"]
ToolLists == {<<AddTool>>, <<AddTool, PolicyTool>>}

\* json.loads: the decoded mapping, or a JSONDecodeError.
JsonLoads(s) ==
    CASE s = "{\"a\": 25, \"b\": 17}" -> [ok |-> TRUE, value |-> [a |-> 25, b |-> 17]]
      [] s = "{\"a\": 25}"            -> [ok |-> TRUE, value |-> [a |-> 25]]
      [] OTHER                        -> [ok |-> FALSE, value |-> <<>>]

VARIABLES
    \* ---- client.py: main() and the MCPGroqClient object
    main_pc,          \* position of main()
    main_exc,         \* the exception main() ends with, or None
    response,         \* main's local `response`
    session,          \* self.session: None or "session"
    exit_stack,       \* self.exit_stack: the contexts entered, oldest first
    channel,          \* the stdio transport: "unopened", "open", "closed"
    initialized,      \* the initialize handshake has completed
    cleanups,         \* number of times cleanup() has closed the stack
    \* ---- client.py: one process_query activation per query
    qpc,              \* position of process_query(q)
    oracle,           \* the Model's answer to the first call of query q
    tools,            \* local `tools`
    assistant_message,\* local `assistant_message`
    messages,         \* local `messages`
    idx,              \* index of the tool call the for loop is at
    final_response,   \* local `final_response` (its message)
    ret,              \* value returned by process_query(q)
    exc,              \* exception raised out of process_query(q), or None
    \* ---- history of the requests made to the collaborators
    events,           \* who issued which kind of request, in order
    modelLog,         \* the Model calls: who, tool_choice, messages, tools
    sessionLog,       \* the session requests: who, op, name, arguments
    replies,          \* the session's answers: who, op, ok, content
    providerTools,    \* the tool list the provider advertises
    \* ---- function_calling.py: the module-level script
    d_pc,             \* position of the script
    d_response,       \* response.choices[0].message
    d_result,         \* local `result`
    d_executed,       \* the local functions that ran: function, requested name, args
    d_modelLog,       \* the Model calls of the script
    d_events,         \* kinds of calls in the order the script made them
    d_final_response, \* final_response.choices[0].message
    d_printed,        \* the text printed as the answer, or None
    d_exc,            \* the exception the script dies with, or None
    \* ---- mcp_server.py: one POST /shwa/mcp/multiply
    h_pc,             \* "idle", "received", "answered"
    h_data,           \* the decoded JSON object of the request body
    h_response        \* status and body of the answer

clientVars == <<main_pc, main_exc, response, session, exit_stack, channel,
                initialized, cleanups>>
queryVars == <<qpc, oracle, tools, assistant_message, messages, idx,
               final_response, ret, exc>>
logVars == <<events, modelLog, sessionLog, replies, providerTools>>
directVars == <<d_pc, d_response, d_result, d_executed, d_modelLog, d_events,
                d_final_response, d_printed, d_exc>>
httpVars == <<h_pc, h_data, h_response>>
vars == <<clientVars, queryVars, logVars, directVars, httpVars>>

\* The value of a message local before it is assigned.
NoMessage == [role |-> "unset", content |-> None, tool_calls |-> <<>>]

UserMessage(q) == [role |-> "user", content |-> QueryText(q)]

\* Mutant: the last content item is forwarded instead of the first.
ToolMessage_LastItem(tool_call, result_content) ==
    [role |-> "tool", tool_call_id |-> tool_call.id,
     content |-> result_content[Len(result_content)]]

ToolMessage(tool_call, result_content) ==
    [role |-> "tool", tool_call_id |-> tool_call.id, content |-> result_content[1]]

\* -------------------------------------------------------------- Init
InitClient ==
    /\ main_pc = "construct"
    /\ main_exc = None
    /\ response = None
    /\ session = None
    /\ exit_stack = <<>>
    /\ channel = "unopened"
    /\ initialized = FALSE
    /\ cleanups = 0

InitQueries ==
    /\ qpc = [q \in Queries |-> "idle"]
    /\ tools = [q \in Queries |-> <<>>]
    /\ assistant_message = [q \in Queries |-> NoMessage]
    /\ messages = [q \in Queries |-> <<>>]
    /\ idx = [q \in Queries |-> 0]
    /\ final_response = [q \in Queries |-> NoMessage]
    /\ ret = [q \in Queries |-> None]
    /\ exc = [q \in Queries |-> None]

InitLogs ==
    /\ events = <<>>
    /\ modelLog = <<>>
    /\ sessionLog = <<>>
    /\ replies = <<>>
    /\ providerTools \in ToolLists

\* The direct script, not started ("idle") or about to make its first call.
InitDirect(pc0) ==
    /\ d_pc = pc0
    /\ d_response = NoMessage
    /\ d_result = 0
    /\ d_executed = <<>>
    /\ d_modelLog = <<>>
    /\ d_events = <<>>
    /\ d_final_response = NoMessage
    /\ d_printed = None
    /\ d_exc = None

\* The HTTP endpoint, switched off or waiting for a request.
InitHttp(pc0) ==
    /\ h_pc = pc0
    /\ h_data = <<>>
    /\ h_response = [status |-> 0, body |-> <<>>]

InitOracle == oracle \in {o \in [Queries -> FirstResponses] : o[2] = o[1]}

Init ==
    /\ InitClient
    /\ InitQueries
    /\ InitLogs
    /\ InitOracle
    /\ InitDirect("idle")
    /\ InitHttp("off")

\* ------------------------------------------------- MCPGroqClient / main
\* main: client = MCPGroqClient(); the constructor builds AsyncGroq() and
\* runs before the try block.
Construct ==
    /\ main_pc = "construct"
    /\ \/ main_pc' = "enter_stdio" /\ UNCHANGED main_exc
       \/ main_pc' = "finished" /\ main_exc' = "GroqError"
    /\ UNCHANGED <<response, session, exit_stack, channel, initialized, cleanups>>
    /\ UNCHANGED <<queryVars, logVars, directVars, httpVars>>

\* connect_to_server: enter_async_context(stdio_client(server_params)).
EnterStdio ==
    /\ main_pc = "enter_stdio"
    /\ \/ /\ exit_stack' = Append(exit_stack, "stdio")
          /\ channel' = "open"
          /\ main_pc' = "enter_session"
          /\ UNCHANGED main_exc
       \/ /\ main_pc' = "cleanup"
          /\ main_exc' = "StdioError"
          /\ UNCHANGED <<exit_stack, channel>>
    /\ UNCHANGED <<response, session, initialized, cleanups>>
    /\ UNCHANGED <<queryVars, logVars, directVars, httpVars>>

\* connect_to_server: self.session = enter_async_context(ClientSession(...)).
EnterSession ==
    /\ main_pc = "enter_session"
    /\ \/ /\ exit_stack' = Append(exit_stack, "session")
          /\ session' = "session"
          /\ main_pc' = "initialize"
          /\ UNCHANGED main_exc
       \/ /\ main_pc' = "cleanup"
          /\ main_exc' = "SessionError"
          /\ UNCHANGED <<exit_stack, session>>
    /\ UNCHANGED <<response, channel, initialized, cleanups>>
    /\ UNCHANGED <<queryVars, logVars, directVars, httpVars>>

\* who 0 is main()/connect_to_server, who q > 0 is process_query(q).
Event(who, kind) == [who |-> who, kind |-> kind]

SessionRequest(who, op, name, arguments) ==
    [who |-> who, op |-> op, name |-> name, arguments |-> arguments]

SessionReply(who, op, ok, content) ==
    [who |-> who, op |-> op, ok |-> ok, content |-> content]

\* connect_to_server: await self.session.initialize().
Initialize ==
    /\ main_pc = "initialize"
    /\ events' = Append(events, Event(0, "initialize"))
    /\ sessionLog' = Append(sessionLog, SessionRequest(0, "initialize", None, None))
    /\ \/ /\ initialized' = TRUE
          /\ main_pc' = "list_tools"
          /\ UNCHANGED main_exc
       \/ /\ main_pc' = "cleanup"
          /\ main_exc' = "InitializeError"
          /\ UNCHANGED initialized
    /\ UNCHANGED <<response, session, exit_stack, channel, cleanups>>
    /\ UNCHANGED <<queryVars, modelLog, replies, providerTools, directVars, httpVars>>

\* connect_to_server: tools_result = await self.session.list_tools(), then
\* the tools are printed.
ConnectListTools ==
    /\ main_pc = "list_tools"
    /\ events' = Append(events, Event(0, "list_tools"))
    /\ sessionLog' = Append(sessionLog, SessionRequest(0, "list_tools", None, None))
    /\ \/ main_pc' = "process_query" /\ UNCHANGED main_exc
       \/ main_pc' = "cleanup" /\ main_exc' = "ListToolsError"
    /\ UNCHANGED <<response, session, exit_stack, channel, initialized, cleanups>>
    /\ UNCHANGED <<queryVars, modelLog, replies, providerTools, directVars, httpVars>>

\* main: response = await client.process_query(query) is entered.
MainProcessQuery ==
    /\ main_pc = "process_query"
    /\ qpc[1] = "idle"
    /\ main_pc' = "await_query"
    /\ qpc' = [qpc EXCEPT ![1] = "get_mcp_tools"]
    /\ UNCHANGED <<main_exc, response, session, exit_stack, channel, initialized,
                   cleanups>>
    /\ UNCHANGED <<oracle, tools, assistant_message, messages, idx, final_response,
                   ret, exc, logVars, directVars, httpVars>>

\* Mutant: cleanup() follows the print instead of sitting in a finally block.
MainQueryDone_NoFinally ==
    /\ main_pc = "await_query"
    /\ qpc[1] \in {"returned", "raised"}
    /\ response' = IF qpc[1] = "returned" THEN ret[1] ELSE response
    /\ main_exc' = exc[1]
    /\ main_pc' = IF qpc[1] = "returned" THEN "cleanup" ELSE "finished"
    /\ UNCHANGED <<session, exit_stack, channel, initialized, cleanups>>
    /\ UNCHANGED <<queryVars, logVars, directVars, httpVars>>

\* main: process_query has returned (the response is printed) or raised
\* (control passes to the finally block).
MainQueryDone ==
    /\ main_pc = "await_query"
    /\ qpc[1] \in {"returned", "raised"}
    /\ response' = IF qpc[1] = "returned" THEN ret[1] ELSE response
    /\ main_exc' = exc[1]
    /\ main_pc' = "cleanup"
    /\ UNCHANGED <<session, exit_stack, channel, initialized, cleanups>>
    /\ UNCHANGED <<queryVars, logVars, directVars, httpVars>>

\* cleanup: await self.exit_stack.aclose() leaves every entered context, the
\* session first and the transport after it.
ExitStackAclose ==
    /\ exit_stack' = <<>>
    /\ channel' = IF \E i \in 1..Len(exit_stack) : exit_stack[i] = "stdio"
                  THEN "closed" ELSE channel
    /\ events' = Append(events, Event(0, "close"))
    /\ cleanups' = cleanups + 1

\* main: the finally block.
Cleanup ==
    /\ main_pc = "cleanup"
    /\ ExitStackAclose
    /\ main_pc' = "finished"
    /\ UNCHANGED <<main_exc, response, session, initialized>>
    /\ UNCHANGED <<queryVars, modelLog, sessionLog, replies, providerTools, directVars, httpVars>>

\* ------------------------------------------------------- get_mcp_tools
\* Mutant: name and description are taken from each other's field.
GroqTool_SwappedFields(tool) ==
    [type |-> "function",
     function |-> [name |-> tool.description, description |-> tool.name,
                   parameters |-> tool.inputSchema]]

\* The Groq schema of one advertised tool.
GroqTool(tool) ==
    [type |-> "function",
     function |-> [name |-> tool.name, description |-> tool.description,
                   parameters |-> tool.inputSchema]]

\* The list comprehension of get_mcp_tools.
GroqTools(tool_list) == [i \in 1..Len(tool_list) |-> GroqTool(tool_list[i])]

\* process_query raises e: the activation ends.
Raise(q, e) ==
    /\ qpc' = [qpc EXCEPT ![q] = "raised"]
    /\ exc' = [exc EXCEPT ![q] = e]

\* get_mcp_tools: self.session.list_tools() is called.
GetMcpTools(q) ==
    /\ qpc[q] = "get_mcp_tools"
    /\ IF session = None
       THEN /\ Raise(q, "AttributeError")
            /\ UNCHANGED <<events, sessionLog>>
       ELSE /\ qpc' = [qpc EXCEPT ![q] = "list_tools_wait"]
            /\ events' = Append(events, Event(q, "list_tools"))
            /\ sessionLog' = Append(sessionLog, SessionRequest(q, "list_tools", None, None))
            /\ UNCHANGED exc
    /\ UNCHANGED <<oracle, tools, assistant_message, messages, idx, final_response, ret>>
    /\ UNCHANGED <<clientVars, modelLog, replies, providerTools, directVars, httpVars>>

\* get_mcp_tools: the awaited list_tools answers or fails.
ListToolsReturn(q) ==
    /\ qpc[q] = "list_tools_wait"
    /\ \/ /\ channel = "open"
          /\ replies' = Append(replies, SessionReply(q, "list_tools", TRUE, providerTools))
          /\ tools' = [tools EXCEPT ![q] = GroqTools(providerTools)]
          /\ qpc' = [qpc EXCEPT ![q] = "model1"]
          /\ UNCHANGED exc
       \/ /\ replies' = Append(replies, SessionReply(q, "list_tools", FALSE, <<>>))
          /\ Raise(q, "ListToolsError")
          /\ UNCHANGED tools
    /\ UNCHANGED <<oracle, assistant_message, messages, idx, final_response, ret>>
    /\ UNCHANGED <<clientVars, events, modelLog, sessionLog, providerTools>>
    /\ UNCHANGED <<directVars, httpVars>>

\* ------------------------------------------------------- process_query
ModelRequest(who, tool_choice, msgs, tls) ==
    [who |-> who, tool_choice |-> tool_choice, messages |-> msgs, tools |-> tls]

\* Mutant: the follow-up call leaves tool use to the Model.
SecondToolChoice_Auto == "auto"

\* The tool_choice of the two Model calls of process_query.
FirstToolChoice == "auto"
SecondToolChoice == "none"

\* Mutant: the branch tests `is not None`, which an empty list passes.
HasToolCalls_NotNone(message) == message.tool_calls \in Seq(ToolCalls)

\* if assistant_message.tool_calls: None and the empty list are both false.
HasToolCalls(message) == message.tool_calls # <<>>

\* The initial Groq call, and the branch on assistant_message.tool_calls.
FirstModelCall(q) ==
    /\ qpc[q] = "model1"
    /\ events' = Append(events, Event(q, "model"))
    /\ modelLog' = Append(modelLog,
                          ModelRequest(q, FirstToolChoice, <<UserMessage(q)>>, tools[q]))
    /\ \/ /\ assistant_message' = [assistant_message EXCEPT ![q] = oracle[q]]
          /\ messages' = [messages EXCEPT ![q] = <<UserMessage(q), oracle[q]>>]
          /\ IF HasToolCalls(oracle[q])
             THEN /\ idx' = [idx EXCEPT ![q] = 1]
                  /\ qpc' = [qpc EXCEPT ![q] = IF Len(oracle[q].tool_calls) >= 1
                                               THEN "tool_call" ELSE "model2"]
                  /\ UNCHANGED ret
             ELSE /\ ret' = [ret EXCEPT ![q] = oracle[q].content]
                  /\ qpc' = [qpc EXCEPT ![q] = "returned"]
                  /\ UNCHANGED idx
          /\ UNCHANGED exc
       \/ /\ Raise(q, "ModelError")
          /\ UNCHANGED <<assistant_message, messages, idx, ret>>
    /\ UNCHANGED <<oracle, tools, final_response>>
    /\ UNCHANGED <<clientVars, sessionLog, replies, providerTools, directVars, httpVars>>

\* Mutant: every iteration takes tool_calls[0].
CurrentToolCall_First(q) == assistant_message[q].tool_calls[1]

\* The tool call the for loop is at.
CurrentToolCall(q) == assistant_message[q].tool_calls[idx[q]]

\* Loop body, first half: self.session.call_tool(name, arguments=json.loads(...))
\* is called.
CallTool(q) ==
    /\ qpc[q] = "tool_call"
    /\ LET tool_call == CurrentToolCall(q)
           decoded == JsonLoads(tool_call.arguments)
       IN  IF session = None
           THEN /\ Raise(q, "AttributeError")
                /\ UNCHANGED <<events, sessionLog>>
           ELSE IF ~decoded.ok
           THEN /\ Raise(q, "JSONDecodeError")
                /\ UNCHANGED <<events, sessionLog>>
           ELSE /\ qpc' = [qpc EXCEPT ![q] = "call_tool_wait"]
                /\ events' = Append(events, Event(q, "call_tool"))
                /\ sessionLog' = Append(sessionLog,
                       SessionRequest(q, "call_tool", tool_call.name, decoded.value))
                /\ UNCHANGED exc
    /\ UNCHANGED <<oracle, tools, assistant_message, messages, idx, final_response, ret>>
    /\ UNCHANGED <<clientVars, modelLog, replies, providerTools, directVars, httpVars>>

\* Mutant: only the first requested call is answered before the follow-up call.
AppendToolMessage_FirstOnly(q, result_content) ==
    /\ messages' = [messages EXCEPT
                      ![q] = Append(@, ToolMessage(CurrentToolCall(q), result_content))]
    /\ qpc' = [qpc EXCEPT ![q] = "model2"]
    /\ UNCHANGED idx

\* Mutant: the history is one list on the client, shared by its queries.
AppendToolMessage_Shared(q, result_content) ==
    /\ messages' = [p \in Queries |->
                      Append(messages[p], ToolMessage(CurrentToolCall(q), result_content))]
    /\ IF idx[q] < Len(assistant_message[q].tool_calls)
       THEN /\ idx' = [idx EXCEPT ![q] = @ + 1]
            /\ qpc' = [qpc EXCEPT ![q] = "tool_call"]
       ELSE /\ qpc' = [qpc EXCEPT ![q] = "model2"]
            /\ UNCHANGED idx

\* messages.append({"role": "tool", ...}) and the step of the for loop.
AppendToolMessage(q, result_content) ==
    /\ messages' = [messages EXCEPT
                      ![q] = Append(@, ToolMessage(CurrentToolCall(q), result_content))]
    /\ IF idx[q] < Len(assistant_message[q].tool_calls)
       THEN /\ idx' = [idx EXCEPT ![q] = @ + 1]
            /\ qpc' = [qpc EXCEPT ![q] = "tool_call"]
       ELSE /\ qpc' = [qpc EXCEPT ![q] = "model2"]
            /\ UNCHANGED idx

\* Mutant: the failure is caught and the loop goes on with the next call.
CallToolFailed_Continue(q) ==
    /\ IF idx[q] < Len(assistant_message[q].tool_calls)
       THEN /\ idx' = [idx EXCEPT ![q] = @ + 1]
            /\ qpc' = [qpc EXCEPT ![q] = "tool_call"]
       ELSE /\ qpc' = [qpc EXCEPT ![q] = "model2"]
            /\ UNCHANGED idx
    /\ UNCHANGED <<messages, exc>>

\* Mutant: the failure is caught and reported to the Model as a tool result.
CallToolFailed_Swallowed(q) ==
    /\ AppendToolMessage(q, <<"error">>)
    /\ UNCHANGED exc

\* The awaited call_tool raises: nothing catches it in process_query.
CallToolFailed(q) ==
    /\ Raise(q, "CallToolError")
    /\ UNCHANGED <<messages, idx>>

\* Loop body, second half: the awaited call_tool answers or fails;
\* result.content[0] raises IndexError on an empty content list.
CallToolReturn(q) ==
    /\ qpc[q] = "call_tool_wait"
    /\ \/ /\ channel = "open"
          /\ \E result_content \in ResultContents :
               /\ replies' = Append(replies,
                                    SessionReply(q, "call_tool", TRUE, result_content))
               /\ IF result_content = <<>>
                  THEN /\ Raise(q, "IndexError")
                       /\ UNCHANGED <<messages, idx>>
                  ELSE /\ AppendToolMessage(q, result_content)
                       /\ UNCHANGED exc
       \/ /\ replies' = Append(replies, SessionReply(q, "call_tool", FALSE, <<>>))
          /\ CallToolFailed(q)
    /\ UNCHANGED <<oracle, tools, assistant_message, final_response, ret>>
    /\ UNCHANGED <<clientVars, events, modelLog, sessionLog, providerTools>>
    /\ UNCHANGED <<directVars, httpVars>>

\* The final Groq call; its message content is returned as it is.
SecondModelCall(q) ==
    /\ qpc[q] = "model2"
    /\ events' = Append(events, Event(q, "model"))
    /\ modelLog' = Append(modelLog,
                          ModelRequest(q, SecondToolChoice, messages[q], tools[q]))
    /\ \/ \E answer \in FinalResponses :
            /\ final_response' = [final_response EXCEPT ![q] = answer]
            /\ ret' = [ret EXCEPT ![q] = answer.content]
            /\ qpc' = [qpc EXCEPT ![q] = "returned"]
            /\ UNCHANGED exc
       \/ /\ Raise(q, "ModelError")
          /\ UNCHANGED <<final_response, ret>>
    /\ UNCHANGED <<oracle, tools, assistant_message, messages, idx>>
    /\ UNCHANGED <<clientVars, sessionLog, replies, providerTools, directVars, httpVars>>

ProcessQuery(q) ==
    \/ GetMcpTools(q)
    \/ ListToolsReturn(q)
    \/ FirstModelCall(q)
    \/ CallTool(q)
    \/ CallToolReturn(q)
    \/ SecondModelCall(q)

\* --------------------------------------------------- function_calling.py
DirectQuery == "Calculate 25 + 17"
DirectUserMessage == [role |-> "user", content |-> DirectQuery]

\* The module-level `tools` list of the script.
DirectTools ==
    <<[type |-> "function",
       function |-> [name |-> "add", description |-> "Add two numbers together",
                     parameters |-> "schema_add"]]>>

\* No tool_choice (or no tools) argument is passed to the Model call.
Unset == "unset"

\* add(**tool_args) of tools.py: the sum, or a TypeError when the keyword
\* arguments are not exactly a and b.
Add(tool_args) ==
    IF DOMAIN tool_args = {"a", "b"}
    THEN [ok |-> TRUE, value |-> tool_args.a + tool_args.b]
    ELSE [ok |-> FALSE, value |-> 0]

\* str() of an integer.
Digit(d) == CASE d = 0 -> "0" [] d = 1 -> "1" [] d = 2 -> "2" [] d = 3 -> "3"
              [] d = 4 -> "4" [] d = 5 -> "5" [] d = 6 -> "6" [] d = 7 -> "7"
              [] d = 8 -> "8" [] d = 9 -> "9"
RECURSIVE StrNat(_)
StrNat(n) == IF n < 10 THEN Digit(n) ELSE StrNat(n \div 10) \o Digit(n % 10)
Str(n) == IF n < 0 THEN "-" \o StrNat(-n) ELSE StrNat(n)

\* The script dies with exception e.
DirectRaise(e) ==
    /\ d_pc' = "done"
    /\ d_exc' = e

\* The first Model call, and the branch on message.tool_calls.
DirectFirstCall ==
    /\ d_pc = "model1"
    /\ d_events' = Append(d_events, "model")
    /\ d_modelLog' = Append(d_modelLog,
                            ModelRequest("direct", Unset, <<DirectUserMessage>>, DirectTools))
    /\ \/ /\ d_response' = oracle[1]
          /\ d_pc' = IF oracle[1].tool_calls # <<>> THEN "execute" ELSE "done"
          /\ UNCHANGED d_exc
       \/ /\ DirectRaise("ModelError")
          /\ UNCHANGED d_response
    /\ UNCHANGED <<d_result, d_executed, d_final_response, d_printed>>
    /\ UNCHANGED <<clientVars, queryVars, logVars, httpVars>>

\* The local function the script runs for a requested tool name.
DirectFunction(tool_name) == "add"

\* tool_call = tool_calls[0]; tool_args = json.loads(...); result = add(**tool_args).
DirectExecute ==
    /\ d_pc = "execute"
    /\ LET tool_call == d_response.tool_calls[1]
           tool_name == tool_call.name
           tool_args == JsonLoads(tool_call.arguments)
       IN  IF ~tool_args.ok
           THEN /\ DirectRaise("JSONDecodeError")
                /\ UNCHANGED <<d_result, d_executed, d_events>>
           ELSE /\ d_events' = Append(d_events, "call_tool")
                /\ IF Add(tool_args.value).ok
                   THEN /\ d_executed' = Append(d_executed,
                                                [function |-> DirectFunction(tool_name),
                                                 name |-> tool_name,
                                                 arguments |-> tool_args.value])
                        /\ d_result' = Add(tool_args.value).value
                        /\ d_pc' = "model2"
                        /\ UNCHANGED d_exc
                   ELSE /\ DirectRaise("TypeError")
                        /\ UNCHANGED <<d_result, d_executed>>
    /\ UNCHANGED <<d_response, d_modelLog, d_final_response, d_printed>>
    /\ UNCHANGED <<clientVars, queryVars, logVars, httpVars>>

\* The messages of the script's second Model call.
DirectMessages ==
    <<DirectUserMessage, d_response,
      [role |-> "tool", tool_call_id |-> d_response.tool_calls[1].id,
       content |-> Str(d_result)]>>

\* The second Model call (no tools, no tool_choice) and the print.
DirectSecondCall ==
    /\ d_pc = "model2"
    /\ d_events' = Append(d_events, "model")
    /\ d_modelLog' = Append(d_modelLog,
                            ModelRequest("direct", Unset, DirectMessages, <<>>))
    /\ \/ \E answer \in FinalResponses :
            /\ d_final_response' = answer
            /\ d_printed' = answer.content
            /\ d_pc' = "done"
            /\ UNCHANGED d_exc
       \/ /\ DirectRaise("ModelError")
          /\ UNCHANGED <<d_final_response, d_printed>>
    /\ UNCHANGED <<d_response, d_result, d_executed>>
    /\ UNCHANGED <<clientVars, queryVars, logVars, httpVars>>

\* ---------------------------------------------------------- mcp_server.py
\* The integers a request body may carry.
HttpValues == -1..6

\* The JSON objects posted: any of "a", "b" present, with integer values.
HttpBodies == UNION {[keys -> HttpValues] : keys \in SUBSET {"a", "b"}}

\* dict.get(key, default).
Get(data, key, default) == IF key \in DOMAIN data THEN data[key] ELSE default

\* Mutant: the operands are added.
multiply_Sum(a, b) == a + b

multiply(a, b) == a * b

\* The default of data.get in call_multiply.
MissingOperand == 0

\* A client posts a JSON object to /shwa/mcp/multiply.
HttpPost ==
    /\ h_pc = "idle"
    /\ \E data \in HttpBodies : h_data' = data
    /\ h_pc' = "received"
    /\ UNCHANGED h_response
    /\ UNCHANGED <<clientVars, queryVars, logVars, directVars>>

\* call_multiply(data) returns, and FastAPI answers 200 with the dict as JSON.
call_multiply ==
    /\ h_pc = "received"
    /\ h_response' =
         [status |-> 200,
          body |-> [result |-> multiply(Get(h_data, "a", MissingOperand),
                                        Get(h_data, "b", MissingOperand))]]
    /\ h_pc' = "answered"
    /\ UNCHANGED h_data
    /\ UNCHANGED <<clientVars, queryVars, logVars, directVars>>

\* ---------------------------------------------------------------- Spec
\* One run of client.py: main() with its single query.
Next ==
    \/ Construct
    \/ EnterStdio
    \/ EnterSession
    \/ Initialize
    \/ ConnectListTools
    \/ MainProcessQuery
    \/ MainQueryDone
    \/ Cleanup
    \/ GetMcpTools(1)
    \/ ListToolsReturn(1)
    \/ FirstModelCall(1)
    \/ CallTool(1)
    \/ CallToolReturn(1)
    \/ SecondModelCall(1)


Spec == Init /\ [][Next]_vars

\* A caller other than main() enters process_query(q) on the constructed
\* client, whatever connect_to_server has done so far.
CallProcessQuery(q) ==
    /\ main_pc # "construct"
    /\ main_exc # "GroqError"
    /\ qpc[q] = "idle"
    /\ qpc' = [qpc EXCEPT ![q] = "get_mcp_tools"]
    /\ UNCHANGED <<oracle, tools, assistant_message, messages, idx, final_response,
                   ret, exc>>
    /\ UNCHANGED <<clientVars, logVars, directVars, httpVars>>

\* The client object used without waiting for connect_to_server: the connect
\* and cleanup steps of main(), and a process_query entered at any moment.
NextEarly ==
    \/ Construct
    \/ EnterStdio
    \/ EnterSession
    \/ Initialize
    \/ ConnectListTools
    \/ Cleanup
    \/ CallProcessQuery(1)
    \/ GetMcpTools(1)
    \/ ListToolsReturn(1)
    \/ FirstModelCall(1)
    \/ CallTool(1)
    \/ CallToolReturn(1)
    \/ SecondModelCall(1)

SpecEarly == Init /\ [][NextEarly]_vars

\* Two queries awaited together on one connected client: both process_query
\* activations are entered before either has run.
GatherProcessQueries ==
    /\ main_pc = "process_query"
    /\ \A q \in Queries : qpc[q] = "idle"
    /\ main_pc' = "await_queries"
    /\ qpc' = [q \in Queries |-> "get_mcp_tools"]
    /\ UNCHANGED <<main_exc, response, session, exit_stack, channel, initialized,
                   cleanups>>
    /\ UNCHANGED <<oracle, tools, assistant_message, messages, idx, final_response,
                   ret, exc, logVars, directVars, httpVars>>

\* The first answers of the Model to the two queries: query 1 is asked for
\* one tool call, query 2 gets plain text or one tool call of its own.
ConcurrentOracles ==
    LET ask(calls) == [role |-> "assistant", content |-> None, tool_calls |-> calls]
        first == ask(<<[id |-> "call_1", name |-> "add",
                        arguments |-> "{\"a\": 25, \"b\": 17}"]>>)
        second == {[role |-> "assistant", content |-> "It is 25 days.",
                    tool_calls |-> <<>>],
                   ask(<<[id |-> "call_2", name |-> "multiply",
                          arguments |-> "{\"a\": 25}"]>>),
                   first}
    IN  {[q \in Queries |-> IF q = 1 THEN first ELSE r] : r \in second}

InitConcurrent ==
    /\ InitClient
    /\ InitQueries
    /\ InitLogs
    /\ oracle \in ConcurrentOracles
    /\ InitDirect("idle")
    /\ InitHttp("off")

NextConcurrent ==
    \/ Construct
    \/ EnterStdio
    \/ EnterSession
    \/ Initialize
    \/ ConnectListTools
    \/ GatherProcessQueries
    \/ Cleanup
    \/ \E q \in Queries : GetMcpTools(q)
    \/ \E q \in Queries : ListToolsReturn(q)
    \/ \E q \in Queries : FirstModelCall(q)
    \/ \E q \in Queries : CallTool(q)
    \/ \E q \in Queries : CallToolReturn(q)
    \/ \E q \in Queries : SecondModelCall(q)

SpecConcurrent == InitConcurrent /\ [][NextConcurrent]_vars

\* One run of function_calling.py.
InitDirectOnly ==
    /\ InitClient
    /\ InitQueries
    /\ InitLogs
    /\ InitOracle
    /\ InitDirect("model1")
    /\ InitHttp("off")

NextDirect ==
    \/ DirectFirstCall
    \/ DirectExecute
    \/ DirectSecondCall

SpecDirect == InitDirectOnly /\ [][NextDirect]_vars

\* client.py and function_calling.py, each run once against a Model that
\* gives both the same first answer.
NextBoth == Next \/ NextDirect

SpecBoth == InitDirectOnly /\ [][NextBoth]_vars

\* One request to the HTTP endpoint.
InitHttpOnly ==
    /\ InitClient
    /\ InitQueries
    /\ InitLogs
    /\ oracle = [q \in Queries |->
                  [role |-> "assistant", content |-> "It is 25 days.", tool_calls |-> <<>>]]
    /\ InitDirect("idle")
    /\ InitHttp("idle")

NextHttp ==
    \/ HttpPost
    \/ call_multiply

SpecHttp == InitHttpOnly /\ [][NextHttp]_vars

\* ------------------------------------------------------------ properties
Finished(q) == qpc[q] \in {"returned", "raised"}

ModelCallsOf(q) == SelectSeq(modelLog, LAMBDA m : m.who = q)

CallToolRequestsOf(q) ==
    SelectSeq(sessionLog, LAMBDA r : r.who = q /\ r.op = "call_tool")

CallToolRepliesOf(q) ==
    SelectSeq(replies, LAMBDA r : r.who = q /\ r.op = "call_tool")

ToolMessagesOf(msgs) == SelectSeq(msgs, LAMBDA m : m.role = "tool")

\* The Model calls and tool calls of query q, in the order they were issued.
RoundTripOf(q) ==
    SelectSeq(events, LAMBDA e : e.who = q /\ e.kind \in {"model", "call_tool"})

Kinds(evs) == [i \in 1..Len(evs) |-> evs[i].kind]

\* The requests the Model made in its answer to the first call of query q.
RequestedCalls(q) == assistant_message[q].tool_calls

\* C1: when the follow-up Model call of a query is issued, its messages hold
\* exactly one tool message per requested call: as many tool messages as
\* requests, and for every call id as many results as requests carrying it.
C1_OneResultPerRequest ==
    \A q \in Queries :
        Len(ModelCallsOf(q)) >= 2 =>
            LET results == ToolMessagesOf(ModelCallsOf(q)[2].messages)
                calls == RequestedCalls(q)
            IN  /\ Len(calls) >= 1
                /\ Len(results) = Len(calls)
                /\ \A id \in CallIds :
                     Cardinality({i \in 1..Len(results) : results[i].tool_call_id = id})
                       = Cardinality({i \in 1..Len(calls) : calls[i].id = id})

\* C1 witness: the follow-up call was issued for a response of two requests
\* that carry the same call id.
C1_Witness ==
    /\ Len(ModelCallsOf(1)) = 2
    /\ Len(RequestedCalls(1)) = 2
    /\ RequestedCalls(1)[1].id = RequestedCalls(1)[2].id

\* C2: a query makes at most two Model calls, the first with tool_choice
\* auto and the second with tool_choice none; once the second call is made
\* the query is over whatever the Model answered, the text returned being the
\* content of that answer, and a finished query takes no further step.
C2_AtMostTwoModelCalls ==
    \A q \in Queries :
        LET calls == ModelCallsOf(q)
        IN  /\ Len(calls) <= 2
            /\ Len(calls) >= 1 => calls[1].tool_choice = "auto"
            /\ Len(calls) = 2 =>
                 /\ calls[2].tool_choice = "none"
                 /\ Finished(q)
                 /\ qpc[q] = "returned" => ret[q] = final_response[q].content
                 /\ Len(CallToolRequestsOf(q)) = Len(RequestedCalls(q))
            /\ Finished(q) => ~ENABLED ProcessQuery(q)

\* C2 witness: the Model answered the follow-up call with a tool request and
\* the query returned all the same.
C2_Witness ==
    /\ qpc[1] = "returned"
    /\ Len(ModelCallsOf(1)) = 2
    /\ final_response[1].tool_calls # <<>>

\* C3: a query whose first response requested one tool call, and whose
\* call_tool succeeded, ends after Model call, call_tool, Model call, and
\* returns the content of the second response.
C3_OneToolRoundTrip ==
    \A q \in Queries :
        (/\ Finished(q)
         /\ Len(RequestedCalls(q)) = 1
         /\ Len(CallToolRepliesOf(q)) = 1
         /\ CallToolRepliesOf(q)[1].ok)
        => /\ Kinds(RoundTripOf(q)) = <<"model", "call_tool", "model">>
           /\ qpc[q] = "returned" => ret[q] = final_response[q].content

\* C4: a failed call_tool ends the query with that error: nothing is
\* returned, the second Model call is never issued, and main() receives the
\* error instead of a response.
C4_ToolFailureAborts ==
    \A q \in Queries :
        (\E i \in 1..Len(replies) :
            replies[i].who = q /\ replies[i].op = "call_tool" /\ ~replies[i].ok)
        => /\ qpc[q] = "raised"
           /\ exc[q] = "CallToolError"
           /\ ret[q] = None
           /\ Len(ModelCallsOf(q)) = 1
           /\ (q = 1 /\ main_pc \in {"cleanup", "finished"})
                => main_exc = "CallToolError" /\ response = None

\* C4 witness: the second of two tool calls failed and main() has finished.
C4_Witness ==
    /\ main_pc = "finished"
    /\ Len(CallToolRepliesOf(1)) = 2
    /\ CallToolRepliesOf(1)[1].ok
    /\ ~CallToolRepliesOf(1)[2].ok

\* C5: the tool calls are executed in the order of the response, and the
\* messages of the follow-up call are the user message, the assistant
\* message, then one tool message per call in that order, the i-th with the
\* id of the i-th call and the first text of the i-th call's own result.
C5_OrderAndCorrelation ==
    \A q \in Queries :
        LET calls == RequestedCalls(q)
            requests == CallToolRequestsOf(q)
            answers == CallToolRepliesOf(q)
        IN  /\ Len(requests) <= Len(calls)
            /\ \A i \in 1..Len(requests) :
                 /\ requests[i].name = calls[i].name
                 /\ requests[i].arguments = JsonLoads(calls[i].arguments).value
            /\ Len(ModelCallsOf(q)) >= 2 =>
                 LET msgs == ModelCallsOf(q)[2].messages
                 IN  /\ Len(msgs) = 2 + Len(calls)
                     /\ Len(answers) = Len(calls)
                     /\ msgs[1] = UserMessage(q)
                     /\ msgs[2] = oracle[q]
                     /\ \A i \in 1..Len(calls) :
                          /\ msgs[2 + i].role = "tool"
                          /\ msgs[2 + i].tool_call_id = calls[i].id
                          /\ msgs[2 + i].content = answers[i].content[1]

\* C5 witness: the follow-up call was issued after two calls that differ in
\* id and name and whose results differ.
C5_Witness ==
    /\ Len(ModelCallsOf(1)) = 2
    /\ Len(RequestedCalls(1)) = 2
    /\ RequestedCalls(1)[1].id # RequestedCalls(1)[2].id
    /\ RequestedCalls(1)[1].name # RequestedCalls(1)[2].name
    /\ CallToolRepliesOf(1)[1].content # CallToolRepliesOf(1)[2].content

\* C6: a first response without tool calls is returned as it is: one Model
\* call, no call_tool, no second Model call.
C6_PlainTextReturned ==
    \A q \in Queries :
        (assistant_message[q].role = "assistant" /\ RequestedCalls(q) = <<>>)
        => /\ qpc[q] = "returned"
           /\ ret[q] = oracle[q].content
           /\ Len(ModelCallsOf(q)) = 1
           /\ CallToolRequestsOf(q) = <<>>

\* C6 witness: main() received the plain text of the first response.
C6_Witness ==
    /\ main_pc = "finished"
    /\ assistant_message[1].role = "assistant"
    /\ RequestedCalls(1) = <<>>
    /\ response = "It is 25 days."

SessionRequestKinds == {"initialize", "list_tools", "call_tool"}

\* C7: cleanup runs at most once; when main() has finished after entering its
\* try block it ran exactly once, no context is left on the exit stack, the
\* transport is not open, and no session request follows the teardown.
C7_TeardownOnEveryPath ==
    /\ cleanups <= 1
    /\ (main_pc = "finished" /\ main_exc # "GroqError")
         => /\ cleanups = 1
            /\ exit_stack = <<>>
            /\ channel # "open"
    /\ \A i, j \in 1..Len(events) :
         (events[i].kind = "close" /\ i < j) => events[j].kind \notin SessionRequestKinds

\* C7 witness: main() finished on a failed tool call with the transport closed.
C7_Witness ==
    /\ main_pc = "finished"
    /\ main_exc = "CallToolError"
    /\ channel = "closed"
    /\ cleanups = 1

\* Role and correlation id of each message of a Model call.
Shape(msgs) ==
    [i \in 1..Len(msgs) |->
        IF msgs[i].role = "tool" THEN <<"tool", msgs[i].tool_call_id>>
        ELSE <<msgs[i].role>>]

\* Name and decoded arguments of each executed tool call.
Executed(calls) ==
    [i \in 1..Len(calls) |-> <<calls[i].name, calls[i].arguments>>]

\* C8: given the same first Model response, and both running to the end
\* without an error, the direct script and process_query make the same
\* number of Model calls, execute the same tool calls in the same order, pass
\* messages of the same roles and call ids to a second Model call that has
\* tool use disabled, and deliver the content of the last Model response.
C8_SameFlow ==
    (/\ qpc[1] = "returned"
     /\ d_pc = "done"
     /\ d_exc = None
     /\ d_response = assistant_message[1])
    => /\ Len(d_modelLog) = Len(ModelCallsOf(1))
       /\ Executed(d_executed) = Executed(CallToolRequestsOf(1))
       /\ Len(d_modelLog) = 2 =>
            /\ Shape(d_modelLog[2].messages) = Shape(ModelCallsOf(1)[2].messages)
            /\ d_modelLog[2].tool_choice = "none"
            /\ ModelCallsOf(1)[2].tool_choice = "none"
            /\ d_printed = d_final_response.content
            /\ ret[1] = final_response[1].content
       /\ Len(d_modelLog) = 1 =>
            /\ d_printed = d_response.content
            /\ ret[1] = assistant_message[1].content

\* C9: every local function the direct script runs is the one the request
\* names; a request naming another tool runs no function.
C9_NamedFunctionRuns ==
    \A i \in 1..Len(d_executed) : d_executed[i].function = d_executed[i].name

\* C10: every posted JSON object with integer values is answered, with
\* status 200 and result a*b when both operands are present (6 and 5 give
\* 30) and result 0 when an operand is missing.
C10_MultiplyAnswers ==
    /\ h_pc = "received" => ENABLED call_multiply
    /\ h_pc = "answered" =>
         /\ h_response.status = 200
         /\ DOMAIN h_response.body = {"result"}
         /\ DOMAIN h_data = {"a", "b"}
              => h_response.body.result = h_data["a"] * h_data["b"]
         /\ (DOMAIN h_data = {"a", "b"} /\ h_data["a"] = 6 /\ h_data["b"] = 5)
              => h_response.body.result = 30
         /\ DOMAIN h_data # {"a", "b"} => h_response.body.result = 0

\* C10 witness: a body without "a" and with b = 5 was answered 200 with 0.
C10_Witness ==
    /\ h_pc = "answered"
    /\ DOMAIN h_data = {"b"}
    /\ h_data["b"] = 5
    /\ h_response = [status |-> 200, body |-> [result |-> 0]]

\* The session answered the list_tools of get_mcp_tools in query q.
ToolsListed(q) ==
    \E i \in 1..Len(replies) :
        replies[i].who = q /\ replies[i].op = "list_tools" /\ replies[i].ok

\* C14: the schemas get_mcp_tools returns are the advertised tools one for
\* one and in order: type "function", and name, description and parameters
\* equal to the tool's name, description and input schema; they are the
\* tools given to every Model call of the query.
C14_SchemasMatchTools ==
    \A q \in Queries :
        ToolsListed(q) =>
            /\ Len(tools[q]) = Len(providerTools)
            /\ \A i \in 1..Len(providerTools) :
                 /\ tools[q][i].type = "function"
                 /\ DOMAIN tools[q][i].function = {"name", "description", "parameters"}
                 /\ tools[q][i].function.name = providerTools[i].name
                 /\ tools[q][i].function.description = providerTools[i].description
                 /\ tools[q][i].function.parameters = providerTools[i].inputSchema
            /\ \A k \in 1..Len(ModelCallsOf(q)) : ModelCallsOf(q)[k].tools = tools[q]

\* C14 witness: two advertised tools were adapted and sent with a Model call.
C14_Witness ==
    /\ ToolsListed(1)
    /\ Len(providerTools) = 2
    /\ Len(tools[1]) = 2
    /\ Len(ModelCallsOf(1)) >= 1

\* C15: when the k-th call_tool of a query fails, the calls issued are the
\* first k requested calls in order, each once, the earlier ones succeeded,
\* and the query is over: no retry and no later call.
C15_FailureStopsBatch ==
    \A q \in Queries :
        LET calls == RequestedCalls(q)
            requests == CallToolRequestsOf(q)
            answers == CallToolRepliesOf(q)
        IN  \A k \in 1..Len(answers) :
                ~answers[k].ok =>
                    /\ k <= Len(calls)
                    /\ Len(answers) = k
                    /\ Len(requests) = k
                    /\ \A i \in 1..k :
                         /\ requests[i].name = calls[i].name
                         /\ requests[i].arguments = JsonLoads(calls[i].arguments).value
                    /\ \A i \in 1..(k - 1) : answers[i].ok
                    /\ qpc[q] = "raised"

\* C15 witness: the first of two requested calls failed and main() finished.
C15_Witness ==
    /\ main_pc = "finished"
    /\ Len(RequestedCalls(1)) = 2
    /\ Len(CallToolRepliesOf(1)) = 1
    /\ ~CallToolRepliesOf(1)[1].ok

\* C16: every tool message carries the first content item of its call's
\* result and nothing else of it, in the history and in the follow-up Model
\* call; a result with an empty content list ends the query with IndexError
\* before the second Model call, its call leaving no tool message.
C16_FirstContentItemOnly ==
    \A q \in Queries :
        LET answers == CallToolRepliesOf(q)
            appended == ToolMessagesOf(messages[q])
        IN  /\ Len(appended) <= Len(answers)
            /\ \A i \in 1..Len(appended) :
                 /\ answers[i].content # <<>>
                 /\ appended[i].content = answers[i].content[1]
            /\ Len(ModelCallsOf(q)) >= 2 =>
                 ToolMessagesOf(ModelCallsOf(q)[2].messages) = appended
            /\ \A i \in 1..Len(answers) :
                 (answers[i].ok /\ answers[i].content = <<>>) =>
                     /\ qpc[q] = "raised"
                     /\ exc[q] = "IndexError"
                     /\ Len(ModelCallsOf(q)) = 1
                     /\ Len(appended) = i - 1
                     /\ Len(answers) = i

\* C16 witness: the follow-up call was issued after a result of two content
\* items, of which the tool message carries the first.
C16_Witness ==
    /\ Len(ModelCallsOf(1)) = 2
    /\ CallToolRepliesOf(1)[1].content = <<"42", "extra">>
    /\ ToolMessagesOf(ModelCallsOf(1)[2].messages)[1].content = "42"

\* C11: connect_to_server issues its list_tools only after initialize; and
\* while the handshake has not completed a query has no session request in
\* flight, has issued no session request and no Model call, and if it is over
\* it failed with NotInitialized.
C11_InitializeFirst ==
    /\ \A j \in 1..Len(events) :
         events[j] = Event(0, "list_tools") =>
            /\ initialized
            /\ \E i \in 1..(j - 1) : events[i] = Event(0, "initialize")
    /\ \A q \in Queries :
         ~initialized =>
            /\ qpc[q] \notin {"list_tools_wait", "call_tool_wait"}
            /\ \A i \in 1..Len(sessionLog) : sessionLog[i].who # q
            /\ ModelCallsOf(q) = <<>>
            /\ Finished(q) => exc[q] = "NotInitialized"

\* The part of C11 about requests alone: no query has a session request in
\* flight while the handshake has not completed.
NoRequestBeforeInitialize ==
    \A q \in Queries :
        qpc[q] \in {"list_tools_wait", "call_tool_wait"} => initialized

\* A request of query q is on the session and not yet answered.
InFlight(q) == qpc[q] \in {"list_tools_wait", "call_tool_wait"}

\* C12: at most one request is in flight on the session at any time: while
\* one query awaits the answer to its list_tools or call_tool, no other query
\* has a request on the session (it waits its turn or is refused).
C12_OneRequestInFlight ==
    \A p, q \in Queries : (p # q /\ InFlight(p)) => ~InFlight(q)

\* C13: the messages a query sends with its second Model call are its own
\* user message, its own assistant message, and one tool message per call it
\* requested, each with that call's id and the result of that query's own
\* call_tool, whatever the other query did meanwhile.
C13_OwnMessageHistory ==
    \A q \in Queries :
        Len(ModelCallsOf(q)) >= 2 =>
            LET msgs == ModelCallsOf(q)[2].messages
                calls == oracle[q].tool_calls
                answers == CallToolRepliesOf(q)
            IN  /\ Len(msgs) = 2 + Len(calls)
                /\ msgs[1] = UserMessage(q)
                /\ msgs[2] = oracle[q]
                /\ \A i \in 1..Len(calls) :
                     msgs[2 + i] = [role |-> "tool", tool_call_id |-> calls[i].id,
                                    content |-> answers[i].content[1]]

\* C13 witness: both queries made their second Model call, each after a tool
\* call of its own with a different id and a different result, and the second
\* call of query 1 was issued while query 2 was between its first Model call
\* and its own second one.
C13_Witness ==
    /\ Len(ModelCallsOf(1)) = 2
    /\ Len(ModelCallsOf(2)) = 2
    /\ oracle[1].tool_calls[1].id # oracle[2].tool_calls[1].id
    /\ CallToolRepliesOf(1)[1].content # CallToolRepliesOf(2)[1].content
    /\ \E i, j, k \in 1..Len(events) :
         /\ i < j /\ j < k
         /\ events[i] = Event(2, "model")
         /\ events[j] = Event(1, "model")
         /\ events[k] = Event(2, "model")
         /\ \E h \in 1..(j - 1) : events[h] = Event(1, "model")
====
